---- MODULE Spec2Model ----
(***************************************************************************)
(* finance_chatbot.py: the Streamlit script of the finance chatbot.        *)
(*                                                                         *)
(* One run of the script is one "turn": the session transcript is created  *)
(* on the first run, a submitted question is appended, the chat model is   *)
(* asked once with the function declarations, a requested function is      *)
(* dispatched to one of the four data clients, its result is appended and  *)
(* the model is asked a second time.  The three memoised operations        *)
(* (find_ticker, get_financial_news, get_exchange_rate) go through         *)
(* st.cache_data, keyed by their arguments and bounded by a ttl.           *)
(*                                                                         *)
(* Python strings are sequences of characters (one-character strings);     *)
(* the three non-ASCII glyphs of the source are the elements "U+274C",     *)
(* "U+2139" and "U+FE0F".  Time is in seconds since the session started.   *)
(***************************************************************************)
EXTENDS Integers, Sequences, FiniteSets, TLC

VARIABLES
    session,            \* st.session_state: a function on a subset of {"messages"}
    pc,                 \* position of the script run: idle between runs
    function_call,      \* response_message.function_call of the running turn, or None
    function_response,  \* the dispatched function's return value, or None
    resolved,           \* the last value find_ticker returned, or None
    widgets,            \* the status widgets the running turn has rendered, in order
    calls,              \* external round trips of the running turn, by kind
    raised,             \* the last run ended with an uncaught exception
    tickerCache,        \* st.cache_data store of find_ticker
    newsCache,          \* st.cache_data store of get_financial_news
    fxCache,            \* st.cache_data store of get_exchange_rate
    now,                \* the clock
    turns               \* questions submitted so far

vars == <<session, pc, function_call, function_response, resolved, widgets, calls,
          raised, tickerCache, newsCache, fxCache, now, turns>>

-----------------------------------------------------------------------------
(* Bounds of the exploration.                                              *)

MaxTurns == 2
MaxTicks == 5

\* the clock readings explored, in seconds: one inside the shortest ttl, then
\* every two minutes
ClockReadings == {0, 60} \cup {120 * k : k \in 1..MaxTicks}

-----------------------------------------------------------------------------
(* Python values and string operations.                                    *)

\* None, "" and the unset local variable of string type
None == <<>>

\* s.startswith(p)
StartsWith(s, p) ==
    /\ Len(p) <= Len(s)
    /\ SubSeq(s, 1, Len(p)) = p

\* sub in s
Contains(s, sub) ==
    \E i \in 0..(Len(s) - Len(sub)) : SubSeq(s, i + 1, i + Len(sub)) = sub

UpperLetters ==
    <<"A", "B", "C", "D", "E", "F", "G", "H", "I", "J", "K", "L", "M",
      "N", "O", "P", "Q", "R", "S", "T", "U", "V", "W", "X", "Y", "Z">>

LowerLetters ==
    <<"a", "b", "c", "d", "e", "f", "g", "h", "i", "j", "k", "l", "m",
      "n", "o", "p", "q", "r", "s", "t", "u", "v", "w", "x", "y", "z">>

IndexIn(letters, c) ==
    IF \E i \in DOMAIN letters : letters[i] = c
    THEN CHOOSE i \in DOMAIN letters : letters[i] = c
    ELSE 0

\* s.upper()
Upper(s) ==
    [i \in DOMAIN s |->
        IF IndexIn(LowerLetters, s[i]) = 0 THEN s[i]
        ELSE UpperLetters[IndexIn(LowerLetters, s[i])]]

\* s.lower()
Lower(s) ==
    [i \in DOMAIN s |->
        IF IndexIn(UpperLetters, s[i]) = 0 THEN s[i]
        ELSE LowerLetters[IndexIn(UpperLetters, s[i])]]

DigitChars == <<"0", "1", "2", "3", "4", "5", "6", "7", "8", "9">>

\* str(n) of a non-negative int
RECURSIVE Digits(_)
Digits(n) ==
    IF n < 10 THEN <<DigitChars[n + 1]>>
    ELSE Digits(n \div 10) \o <<DigitChars[(n % 10) + 1]>>

\* the %d, %m, %H, %M fields of strftime: two digits
Pad2(n) == <<DigitChars[((n \div 10) % 10) + 1], DigitChars[(n % 10) + 1]>>

\* the decimals of a float's str(): trailing zeros dropped, one digit kept
RECURSIVE StripZeros(_)
StripZeros(ds) ==
    IF Len(ds) > 1 /\ ds[Len(ds)] = "0" THEN StripZeros(SubSeq(ds, 1, Len(ds) - 1))
    ELSE ds

\* n written with exactly k digits
RECURSIVE PadK(_, _)
PadK(n, k) ==
    IF k = 0 THEN <<>> ELSE PadK(n \div 10, k - 1) \o <<DigitChars[(n % 10) + 1]>>

RECURSIVE Pow10(_)
Pow10(k) == IF k = 0 THEN 1 ELSE 10 * Pow10(k - 1)

\* str(round(x, k)) where scaled = round(x * 10^k)
FloatStr(scaled, k) ==
    Digits(scaled \div Pow10(k)) \o <<".">> \o StripZeros(PadK(scaled % Pow10(k), k))

\* f"{x:.2f}" where cents = round(x * 100)
Fixed2(cents) == Digits(cents \div 100) \o <<".">> \o Pad2(cents % 100)

\* round(num / den, k) scaled by 10^k; num and den positive
RoundDiv(num, den, k) == (2 * num * Pow10(k) + den) \div (2 * den)

-----------------------------------------------------------------------------
(* String literals of the source.                                          *)

\* '[U+274C] Could not find any price data. Please check the ticker symbol or company name.'
PRICE_EMPTY ==
    <<"U+274C", " ", "C", "o", "u", "l", "d", " ", "n", "o", "t", " ", "f", "i", "n",
      "d", " ", "a", "n", "y", " ", "p", "r", "i", "c", "e", " ", "d", "a", "t", "a",
      ".", " ", "P", "l", "e", "a", "s", "e", " ", "c", "h", "e", "c", "k", " ", "t",
      "h", "e", " ", "t", "i", "c", "k", "e", "r", " ", "s", "y", "m", "b", "o", "l",
      " ", "o", "r", " ", "c", "o", "m", "p", "a", "n", "y", " ", "n", "a", "m", "e",
      ".">>

\* '[U+274C] Error while retrieving stock data: '
PRICE_ERROR_HEAD ==
    <<"U+274C", " ", "E", "r", "r", "o", "r", " ", "w", "h", "i", "l", "e", " ", "r",
      "e", "t", "r", "i", "e", "v", "i", "n", "g", " ", "s", "t", "o", "c", "k", " ",
      "d", "a", "t", "a", ":", " ">>

\* '. Please contact support: '
PRICE_ERROR_TAIL ==
    <<".", " ", "P", "l", "e", "a", "s", "e", " ", "c", "o", "n", "t", "a", "c", "t",
      " ", "s", "u", "p", "p", "o", "r", "t", ":", " ">>

\* '070-1234-5678'
SUPPORT_PHONE_NUMBER ==
    <<"0", "7", "0", "-", "1", "2", "3", "4", "-", "5", "6", "7", "8">>

\* '[U+274C] No stock data available for this company.'
HISTORY_EMPTY ==
    <<"U+274C", " ", "N", "o", " ", "s", "t", "o", "c", "k", " ", "d", "a", "t", "a",
      " ", "a", "v", "a", "i", "l", "a", "b", "l", "e", " ", "f", "o", "r", " ", "t",
      "h", "i", "s", " ", "c", "o", "m", "p", "a", "n", "y", ".">>

\* 'Here is the price history for '
HISTORY_HEAD ==
    <<"H", "e", "r", "e", " ", "i", "s", " ", "t", "h", "e", " ", "p", "r", "i", "c",
      "e", " ", "h", "i", "s", "t", "o", "r", "y", " ", "f", "o", "r", " ">>

\* ' for the last seven days:\n\n'
HISTORY_TAIL ==
    <<" ", "f", "o", "r", " ", "t", "h", "e", " ", "l", "a", "s", "t", " ", "s", "e",
      "v", "e", "n", " ", "d", "a", "y", "s", ":", "\n", "\n">>

\* '[U+274C] Error while retrieving news (Status '
NEWS_ERROR_HEAD ==
    <<"U+274C", " ", "E", "r", "r", "o", "r", " ", "w", "h", "i", "l", "e", " ", "r",
      "e", "t", "r", "i", "e", "v", "i", "n", "g", " ", "n", "e", "w", "s", " ", "(",
      "S", "t", "a", "t", "u", "s", " ">>

\* '[U+274C] Error while retrieving exchange rate (Status '
FX_ERROR_HEAD ==
    <<"U+274C", " ", "E", "r", "r", "o", "r", " ", "w", "h", "i", "l", "e", " ", "r",
      "e", "t", "r", "i", "e", "v", "i", "n", "g", " ", "e", "x", "c", "h", "a", "n",
      "g", "e", " ", "r", "a", "t", "e", " ", "(", "S", "t", "a", "t", "u", "s", " ">>

\* ').'
STATUS_TAIL ==
    <<")", ".">>

\* '[U+2139 U+FE0F] No recent news found for **'
NEWS_NONE_HEAD ==
    <<"U+2139", "U+FE0F", " ", "N", "o", " ", "r", "e", "c", "e", "n", "t", " ", "n",
      "e", "w", "s", " ", "f", "o", "u", "n", "d", " ", "f", "o", "r", " ", "*", "*">>

\* '**.'
NEWS_NONE_TAIL ==
    <<"*", "*", ".">>

\* '\n_Source: newsapi.org, as of '
NEWS_FOOTER_HEAD ==
    <<"\n", "_", "S", "o", "u", "r", "c", "e", ":", " ", "n", "e", "w", "s", "a", "p",
      "i", ".", "o", "r", "g", ",", " ", "a", "s", " ", "o", "f", " ">>

\* '[U+274C] The currency pair could not be found.'
FX_NOT_FOUND ==
    <<"U+274C", " ", "T", "h", "e", " ", "c", "u", "r", "r", "e", "n", "c", "y", " ",
      "p", "a", "i", "r", " ", "c", "o", "u", "l", "d", " ", "n", "o", "t", " ", "b",
      "e", " ", "f", "o", "u", "n", "d", ".">>

\* '_Source: Open Exchange Rates, as of '
FX_FOOTER_HEAD ==
    <<"_", "S", "o", "u", "r", "c", "e", ":", " ", "O", "p", "e", "n", " ", "E", "x",
      "c", "h", "a", "n", "g", "e", " ", "R", "a", "t", "e", "s", ",", " ", "a", "s",
      " ", "o", "f", " ">>

\* ' UTC_'
FX_FOOTER_TAIL ==
    <<" ", "U", "T", "C", "_">>

\* the text without its full stop
UNKNOWN_FUNCTION_SHORT ==
    <<"U", "n", "k", "n", "o", "w", "n", " ", "f", "u", "n", "c", "t", "i", "o", "n", " ",
      "c", "a", "l", "l">>

\* 'Unknown function call.'
UNKNOWN_FUNCTION ==
    <<"U", "n", "k", "n", "o", "w", "n", " ", "f", "u", "n", "c", "t", "i", "o", "n",
      " ", "c", "a", "l", "l", ".">>

\* '_Source: Yahoo Finance (yfinance), as of '
PRICE_FOOTER_HEAD ==
    <<"_", "S", "o", "u", "r", "c", "e", ":", " ", "Y", "a", "h", "o", "o", " ", "F",
      "i", "n", "a", "n", "c", "e", " ", "(", "y", "f", "i", "n", "a", "n", "c", "e",
      ")", ",", " ", "a", "s", " ", "o", "f", " ">>

\* 'Closing price: **'
CLOSING_PRICE ==
    <<"C", "l", "o", "s", "i", "n", "g", " ", "p", "r", "i", "c", "e", ":", " ", "*",
      "*">>

\* 'No price data available.'
NO_PRICE_DATA ==
    <<"N", "o", " ", "p", "r", "i", "c", "e", " ", "d", "a", "t", "a", " ", "a", "v",
      "a", "i", "l", "a", "b", "l", "e", ".">>

\* 'Error while creating the chart.'
CHART_ERROR ==
    <<"E", "r", "r", "o", "r", " ", "w", "h", "i", "l", "e", " ", "c", "r", "e", "a",
      "t", "i", "n", "g", " ", "t", "h", "e", " ", "c", "h", "a", "r", "t", ".">>

\* ' - Closing Price (last 7 days)'
CHART_TITLE_TAIL ==
    <<" ", "U+2013", " ", "C", "l", "o", "s", "i", "n", "g", " ", "P", "r", "i", "c", "e",
      " ", "(", "l", "a", "s", "t", " ", "7", " ", "d", "a", "y", "s", ")">>

\* ' USD**'
USD_BOLD_TAIL ==
    <<" ", "U", "S", "D", "*", "*">>

\* 'High: '
HIGH_HEAD ==
    <<"H", "i", "g", "h", ":", " ">>

\* ' USD, Low: '
LOW_HEAD ==
    <<" ", "U", "S", "D", ",", " ", "L", "o", "w", ":", " ">>

\* ' USD, Volume: '
VOLUME_HEAD ==
    <<" ", "U", "S", "D", ",", " ", "V", "o", "l", "u", "m", "e", ":", " ">>

\* ' as of '
AS_OF ==
    <<" ", "a", "s", " ", "o", "f", " ">>

\* 'Error'
ERROR_WORD ==
    <<"E", "r", "r", "o", "r">>

\* 'no recent news'
NO_RECENT_NEWS ==
    <<"n", "o", " ", "r", "e", "c", "e", "n", "t", " ", "n", "e", "w", "s">>

\* 'not found'
NOT_FOUND ==
    <<"n", "o", "t", " ", "f", "o", "u", "n", "d">>

\* '[U+274C]'
FAIL_MARK ==
    <<"U+274C">>


-----------------------------------------------------------------------------
(* The inputs the explored runs draw from.                                 *)

\* arguments.get("ticker"): "Apple", "AAPL"
Queries == {<<"A", "p", "p", "l", "e">>, <<"A", "A", "P", "L">>}

\* the symbol Yahoo Finance knows the company by
SYMBOL == <<"A", "A", "P", "L">>

\* stock.info["shortName"]
SHORT_NAME == <<"A", "p", "p", "l", "e", " ", "I", "n", "c", ".">>

\* str(e) of a caught exception
EXC_TEXT == <<"t", "i", "m", "e", "o", "u", "t">>

\* arguments.get("from_currency"), arguments.get("to_currency")
EUR == <<"e", "u", "r">>
USD == <<"U", "S", "D">>
XXX == <<"X", "X", "X">>
CurrencyPairs == {<<EUR, USD>>, <<USD, EUR>>, <<EUR, XXX>>}

\* data["rates"] of latest.json, in hundredths of the base currency
RateTables ==
    { [c \in {<<"E", "U", "R">>, <<"U", "S", "D">>} |->
          IF c = <<"U", "S", "D">> THEN 100 ELSE 80],
      [c \in {<<"E", "U", "R">>, <<"U", "S", "D">>} |->
          IF c = <<"U", "S", "D">> THEN 100 ELSE 50] }

\* response.status_code of a failed request
ErrorStatus == {500}

\* hist of stock.history(period="7d"): date, and prices in thousandths of a dollar
HistRows ==
    << [date |-> [d |-> 2, m |-> 1, y |-> 2025],
        Close |-> 150254, High |-> 151000, Low |-> 149500, Volume |-> 1200],
       [date |-> [d |-> 3, m |-> 1, y |-> 2025],
        Close |-> 152500, High |-> 153126, Low |-> 150000, Volume |-> 900] >>

\* response.json()["articles"] of a non-empty answer
Articles ==
    << [publishedAt |-> [iso |-> TRUE, d |-> 3, m |-> 1, y |-> 2025, H |-> 9, M |-> 30,
                         raw |-> <<"2", "0", "2", "5", "-", "0", "1", "-", "0", "3",
                                   "T", "0", "9", ":", "3", "0", "Z">>],
        title |-> <<"Q", "1">>, url |-> <<"u">>, source |-> <<"W", "i", "r", "e">>] >>

\* what the chat model says, and what the user asks
ANSWER == <<"o", "k">>
UserInputs == {<<"?">>}

\* outcomes of the external calls
TickerLookups == {"symbol", "search", "none", "raise"}
HistOutcomes == {"rows", "empty", "raise"}
InfoOutcomes == {"shortName", "raise"}

\* requests.get(url) of the news search, with response.json() of a 200 answer
NewsAnswers ==
    {[kind |-> "raise"], [kind |-> "badjson"], [kind |-> "empty"], [kind |-> "ok"]}
      \cup {[kind |-> "status", code |-> c] : c \in ErrorStatus}

\* requests.get(url) of latest.json, with response.json() of a 200 answer
FxAnswers ==
    {[kind |-> "raise"], [kind |-> "badjson"]}
      \cup {[kind |-> "status", code |-> c] : c \in ErrorStatus}
      \cup {[kind |-> "ok", rates |-> r] : r \in RateTables}

\* the date the session started on, for strftime of the clock
SessionDay == [d |-> 3, m |-> 1, y |-> 2025]

-----------------------------------------------------------------------------
(* strftime.                                                               *)

\* d.strftime("%d.%m.%Y")
FormatDate(dt) == Pad2(dt.d) \o <<".">> \o Pad2(dt.m) \o <<".">> \o Digits(dt.y)

\* d.strftime("%d.%m.%Y %H:%M")
FormatDateTime(dt) ==
    FormatDate(dt) \o <<" ">> \o Pad2(dt.H) \o <<":">> \o Pad2(dt.M)

\* the datetime of a clock reading (seconds since the session started)
ClockTime(t) ==
    [d |-> SessionDay.d, m |-> SessionDay.m, y |-> SessionDay.y,
     H |-> (t \div 3600) % 24, M |-> (t \div 60) % 60]

\* round(x, 2) of a price in thousandths, in cents
Round2(milli) == (milli + 5) \div 10

-----------------------------------------------------------------------------
(* st.cache_data: a store keyed by the arguments, each entry kept for ttl  *)
(* seconds after it was computed.                                          *)

TTL_FIND_TICKER == 600
TTL_NEWS == 120
TTL_FX == 300

EmptyCache == [k \in {} |-> None]

\* the key of a call: the tuple of its arguments
CacheKey(args) == args

\* a store whose entries never expire
FreshForever(cache, key, ttl) == key \in DOMAIN cache

\* the store holds an unexpired entry for the key
Fresh(cache, key, ttl) ==
    /\ key \in DOMAIN cache
    /\ now < cache[key].at + ttl

\* the store after the value computed for the key was written
Store(cache, key, val) ==
    [k \in (DOMAIN cache) \cup {key} |->
        IF k = key THEN [val |-> val, at |-> now] ELSE cache[k]]

-----------------------------------------------------------------------------
(* 3. Ticker search.                                                       *)

\* the body of find_ticker: any failure falls back to the query itself
find_ticker_body(query, lookup) ==
    CASE lookup = "symbol" -> SYMBOL     \* data.info["symbol"]
      [] lookup = "search" -> SYMBOL     \* tickers[0]
      [] lookup = "none" -> query
      [] lookup = "raise" -> query

\* find_ticker behind st.cache_data(ttl=600)
find_ticker(query, lookup, tc) ==
    IF Fresh(tc, CacheKey(<<query>>), TTL_FIND_TICKER)
    THEN [ret |-> tc[CacheKey(<<query>>)].val, tc |-> tc, lookups |-> 0]
    ELSE [ret |-> find_ticker_body(query, lookup),
          tc |-> Store(tc, CacheKey(<<query>>), find_ticker_body(query, lookup)),
          lookups |-> 1]

-----------------------------------------------------------------------------
(* 4. Stock price query and chart.                                         *)

\* stock.info.get("shortName", default)
ShortName(info, default) == IF info = "shortName" THEN SHORT_NAME ELSE default

\* get_stock_price: every exception after the ticker search is caught
get_stock_price(ticker_or_name, lookup, hist, info, tc) ==
    LET t == find_ticker(ticker_or_name, lookup, tc)
        ticker == t.ret
        last_quote == HistRows[Len(HistRows)]
        last_date == FormatDate(last_quote.date)
        name == ShortName(info, ticker)
        text ==
            CASE hist = "raise" -> PRICE_ERROR_HEAD \o EXC_TEXT \o PRICE_ERROR_TAIL
                                     \o SUPPORT_PHONE_NUMBER
              [] hist = "empty" -> PRICE_EMPTY
              [] hist = "rows" /\ info = "raise" ->
                    PRICE_ERROR_HEAD \o EXC_TEXT \o PRICE_ERROR_TAIL
                      \o SUPPORT_PHONE_NUMBER
              [] OTHER ->
                    <<"*", "*">> \o name \o <<" ", "(">> \o ticker \o <<")">> \o AS_OF
                      \o last_date \o <<"*", "*", "\n">>
                      \o CLOSING_PRICE \o FloatStr(Round2(last_quote.Close), 2)
                      \o USD_BOLD_TAIL \o <<"\n">>
                      \o HIGH_HEAD \o FloatStr(Round2(last_quote.High), 2)
                      \o LOW_HEAD \o FloatStr(Round2(last_quote.Low), 2)
                      \o VOLUME_HEAD \o Digits(last_quote.Volume) \o <<"\n", "\n">>
                      \o PRICE_FOOTER_HEAD \o last_date \o <<"_">>
    IN  [raises |-> FALSE, ret |-> text, tc |-> t.tc, resolved |-> ticker,
         lookups |-> t.lookups, fetches |-> 1]

\* hist.tail(7), and seq[::-1]
TailRows(rows, n) ==
    IF Len(rows) <= n THEN rows ELSE SubSeq(rows, Len(rows) - n + 1, Len(rows))

Reversed(s) == [i \in DOMAIN s |-> s[Len(s) + 1 - i]]

\* "\n".join(lines)
RECURSIVE JoinLines(_)
JoinLines(lines) ==
    IF Len(lines) = 0 THEN <<>>
    ELSE IF Len(lines) = 1 THEN lines[1]
    ELSE lines[1] \o <<"\n">> \o JoinLines(Tail(lines))

\* f"* **{d.strftime('%d.%m.%Y')}: {c:.2f} USD**"
HistoryLine(row) ==
    <<"*", " ", "*", "*">> \o FormatDate(row.date) \o <<":", " ">>
      \o Fixed2(Round2(row.Close)) \o USD_BOLD_TAIL

\* get_stock_history: no exception is caught
get_stock_history(ticker_or_name, lookup, hist, info, tc) ==
    LET t == find_ticker(ticker_or_name, lookup, tc)
        ticker == t.ret
        rows == Reversed(TailRows(HistRows, 7))
        md == HISTORY_HEAD \o ShortName(info, ticker) \o <<" ", "(">> \o ticker
                \o <<")">> \o HISTORY_TAIL
                \o JoinLines([i \in DOMAIN rows |-> HistoryLine(rows[i])])
    IN  [raises |-> (hist = "raise" \/ (hist = "rows" /\ info = "raise")),
         ret |-> IF hist = "empty" THEN HISTORY_EMPTY ELSE md,
         tc |-> t.tc, resolved |-> ticker, lookups |-> t.lookups, fetches |-> 1]

\* plot_stock_history: the series is fetched again; the widget it renders
plot_stock_history(ticker_or_name, lookup, hist, tc) ==
    LET t == find_ticker(ticker_or_name, lookup, tc)
    IN  [widget |->
            CASE hist = "raise" -> [kind |-> "error", text |-> CHART_ERROR]
              [] hist = "empty" -> [kind |-> "warning", text |-> NO_PRICE_DATA]
              [] OTHER -> [kind |-> "pyplot", text |-> t.ret \o CHART_TITLE_TAIL],
         tc |-> t.tc, resolved |-> t.ret, lookups |-> t.lookups, fetches |-> 1]

-----------------------------------------------------------------------------
(* 5. News via NewsAPI.org.                                                *)

\* one line of the result: "- {published_str} ({source}): [{title}]({link})\n"
NewsLine(n) ==
    <<"-", " ">>
      \o (IF n.publishedAt.iso THEN FormatDateTime(n.publishedAt)
          ELSE SubSeq(n.publishedAt.raw, 1, 10))
      \o <<" ", "(">> \o n.source \o <<")", ":", " ", "[">> \o n.title
      \o <<"]", "(">> \o n.url \o <<")", "\n">>

RECURSIVE NewsLines(_)
NewsLines(news) ==
    IF Len(news) = 0 THEN <<>> ELSE NewsLine(news[1]) \o NewsLines(Tail(news))

\* the body of get_financial_news: only the name lookup is guarded
get_financial_news_body(ticker_or_name, lookup, info, http, tc) ==
    LET t == find_ticker(ticker_or_name, lookup, tc)
        name == IF info = "raise" THEN ticker_or_name
                ELSE ShortName(info, ticker_or_name)
    IN  [raises |-> http.kind \in {"raise", "badjson"},
         ret |->
            CASE http.kind = "status" ->
                    NEWS_ERROR_HEAD \o Digits(http.code) \o STATUS_TAIL
              [] http.kind = "empty" -> NEWS_NONE_HEAD \o name \o NEWS_NONE_TAIL
              [] OTHER ->
                    NewsLines(Articles) \o NEWS_FOOTER_HEAD
                      \o FormatDateTime(ClockTime(now)) \o <<"_">>,
         tc |-> t.tc, resolved |-> t.ret, lookups |-> t.lookups, fetches |-> 1]

\* get_financial_news behind st.cache_data(ttl=120): a call that raises stores nothing
get_financial_news(ticker_or_name, lookup, info, http, tc, nc) ==
    LET key == CacheKey(<<ticker_or_name>>)
        b == get_financial_news_body(ticker_or_name, lookup, info, http, tc)
    IN  IF Fresh(nc, key, TTL_NEWS)
        THEN [raises |-> FALSE, ret |-> nc[key].val, tc |-> tc, nc |-> nc,
              resolved |-> resolved, lookups |-> 0, fetches |-> 0]
        ELSE [raises |-> b.raises, ret |-> b.ret, tc |-> b.tc,
              nc |-> IF b.raises THEN nc ELSE Store(nc, key, b.ret),
              resolved |-> b.resolved, lookups |-> b.lookups, fetches |-> b.fetches]

-----------------------------------------------------------------------------
(* 6. Exchange rates via Open Exchange Rates.                              *)

\* the try block of get_exchange_rate: a missing code or a zero rate is caught
ExchangeRateText(from_currency, to_currency, rates) ==
    IF /\ Upper(from_currency) \in DOMAIN rates
       /\ Upper(to_currency) \in DOMAIN rates
       /\ rates[Upper(from_currency)] # 0
    THEN <<"1", " ">> \o Upper(from_currency) \o <<" ", "=", " ", "*", "*">>
           \o FloatStr(RoundDiv(rates[Upper(to_currency)],
                                rates[Upper(from_currency)], 4), 4)
           \o <<" ">> \o Upper(to_currency) \o <<"*", "*", "\n">>
           \o FX_FOOTER_HEAD \o FormatDateTime(ClockTime(now)) \o FX_FOOTER_TAIL
    ELSE FX_NOT_FOUND

\* the body of get_exchange_rate: the request and its decoding are not guarded
get_exchange_rate_body(from_currency, to_currency, http) ==
    [raises |-> http.kind \in {"raise", "badjson"},
     ret |->
        CASE http.kind = "status" -> FX_ERROR_HEAD \o Digits(http.code) \o STATUS_TAIL
          [] http.kind = "ok" -> ExchangeRateText(from_currency, to_currency, http.rates)
          [] OTHER -> None,
     fetches |-> 1]

\* a key that leaves the pair out
FxKeyShared(from_currency, to_currency) == CacheKey(<<>>)

\* the key st.cache_data gives a call of get_exchange_rate
FxKey(from_currency, to_currency) == CacheKey(<<from_currency, to_currency>>)

\* get_exchange_rate behind st.cache_data(ttl=300)
get_exchange_rate(from_currency, to_currency, http, fc) ==
    LET key == FxKey(from_currency, to_currency)
        b == get_exchange_rate_body(from_currency, to_currency, http)
    IN  IF Fresh(fc, key, TTL_FX)
        THEN [raises |-> FALSE, ret |-> fc[key].val, fc |-> fc, fetches |-> 0]
        ELSE [raises |-> b.raises, ret |-> b.ret,
              fc |-> IF b.raises THEN fc ELSE Store(fc, key, b.ret),
              fetches |-> b.fetches]

-----------------------------------------------------------------------------
(* 2. The function declarations, and what the chat model may answer.       *)

\* the names of the entries of functions
functions ==
    {"get_stock_price", "get_stock_history", "get_financial_news", "get_exchange_rate"}

TickerFunctions == {"get_stock_price", "get_stock_history", "get_financial_news"}

\* a name the model invents
UNDECLARED == "get_weather"

\* function_call.arguments that json.loads rejects
MALFORMED == [json |-> FALSE]

\* response_message.function_call of a direct answer
NoCall == [name |-> "None", arguments |-> MALFORMED]

\* response_message.function_call, when the model requests a function
FunctionCalls ==
    {[name |-> n, arguments |-> [json |-> TRUE, ticker |-> q]] : n \in TickerFunctions, q \in Queries}
      \cup {[name |-> "get_exchange_rate",
             arguments |-> [json |-> TRUE, from_currency |-> p[1],
                           to_currency |-> p[2]]] :
                p \in CurrencyPairs}
      \cup {[name |-> UNDECLARED, arguments |-> [json |-> TRUE, city |-> <<"K">>]]}
      \cup {[name |-> n, arguments |-> MALFORMED] : n \in functions \cup {UNDECLARED}}

-----------------------------------------------------------------------------
(* 7. Session state.                                                       *)

\* the system prompt, by its name
SYSTEM_PROMPT == <<"s", "y", "s">>

\* a session set up again by every run
EnsureSessionEveryRun(state) ==
    [k \in {"messages"} |-> <<[role |-> "system", content |-> SYSTEM_PROMPT]>>]

\* if "messages" not in st.session_state: create the transcript
EnsureSession(state) ==
    IF "messages" \notin DOMAIN state
    THEN [k \in {"messages"} |-> <<[role |-> "system", content |-> SYSTEM_PROMPT]>>]
    ELSE state

\* st.session_state.messages, empty before the first run
messages == IF "messages" \in DOMAIN session THEN session["messages"] ELSE <<>>

\* st.session_state.messages.append(msg)
AppendMessage(state, msg) == [state EXCEPT !["messages"] = Append(@, msg)]

ZeroCalls == [model |-> 0, declared |-> 0, price |-> 0, news |-> 0, fx |-> 0,
              ticker |-> 0, plot |-> 0]

Init ==
    /\ session = [k \in {} |-> <<>>]
    /\ pc = "idle"
    /\ function_call = NoCall
    /\ function_response = None
    /\ resolved = None
    /\ widgets = <<>>
    /\ calls = ZeroCalls
    /\ raised = "no"
    /\ tickerCache = EmptyCache
    /\ newsCache = EmptyCache
    /\ fxCache = EmptyCache
    /\ now = 0
    /\ turns = 0

-----------------------------------------------------------------------------
(* 8. The script.                                                          *)

\* a run starts with nothing rendered and no local variable set
StartRun ==
    /\ widgets' = <<>>
    /\ calls' = ZeroCalls
    /\ raised' = "no"
    /\ function_call' = NoCall
    /\ function_response' = None

\* an uncaught exception ends the run; the session state stays as it is
Abort(site) ==
    /\ pc' = "idle"
    /\ raised' = site

\* a run without input: the page is loaded or refreshed
Rerun ==
    /\ pc = "idle"
    /\ session' = EnsureSession(session)
    /\ StartRun
    /\ UNCHANGED <<pc, resolved, tickerCache, newsCache, fxCache, now, turns>>

\* if user_input: the question is appended
Submit ==
    /\ pc = "idle"
    /\ turns < MaxTurns
    /\ \E user_input \in UserInputs :
          session' = AppendMessage(EnsureSession(session),
                                   [role |-> "user", content |-> user_input])
    /\ StartRun
    /\ pc' = "first_call"
    /\ turns' = turns + 1
    /\ UNCHANGED <<resolved, tickerCache, newsCache, fxCache, now>>

\* client.chat.completions.create(..., functions=functions) raises
FirstCallRaises ==
    /\ pc = "first_call"
    /\ Abort("model")
    /\ UNCHANGED <<session, function_call, function_response, resolved, widgets, calls,
                   tickerCache, newsCache, fxCache, now, turns>>

\* the model answers directly
FirstCallAnswers ==
    /\ pc = "first_call"
    /\ session' = AppendMessage(session, [role |-> "assistant", content |-> ANSWER])
    /\ widgets' = Append(widgets, [kind |-> "success", text |-> ANSWER])
    /\ calls' = [calls EXCEPT !.model = @ + 1, !.declared = @ + 1]
    /\ pc' = "idle"
    /\ UNCHANGED <<function_call, function_response, resolved, raised,
                   tickerCache, newsCache, fxCache, now, turns>>

\* the model requests a function
FirstCallRequests ==
    /\ pc = "first_call"
    /\ \E fc \in FunctionCalls : function_call' = fc
    /\ calls' = [calls EXCEPT !.model = @ + 1, !.declared = @ + 1]
    /\ pc' = "dispatch"
    /\ UNCHANGED <<session, function_response, resolved, widgets, raised,
                   tickerCache, newsCache, fxCache, now, turns>>

\* json.loads(response_message.function_call.arguments) raises
ArgumentsRejected ==
    /\ pc = "dispatch"
    /\ function_call.arguments = MALFORMED
    /\ Abort("json")
    /\ UNCHANGED <<session, function_call, function_response, resolved, widgets, calls,
                   tickerCache, newsCache, fxCache, now, turns>>

\* the function returned: its result is appended under the requested name
Returned(result) ==
    /\ function_response' = result
    /\ session' = AppendMessage(session, [role |-> "function",
                                          name |-> function_call.name,
                                          content |-> result])
    /\ pc' = "second_call"
    /\ raised' = raised

\* the function raised: nothing is appended
Raised ==
    /\ Abort("tool")
    /\ UNCHANGED <<session, function_response>>

Dispatching(name) ==
    /\ pc = "dispatch"
    /\ function_call.arguments # MALFORMED
    /\ function_call.name = name

DispatchPrice ==
    /\ Dispatching("get_stock_price")
    /\ \E lookup \in TickerLookups, hist \in HistOutcomes, info \in InfoOutcomes :
          LET r == get_stock_price(function_call.arguments.ticker, lookup, hist, info,
                                   tickerCache)
          IN  /\ Returned(r.ret)
              /\ tickerCache' = r.tc
              /\ resolved' = r.resolved
              /\ calls' = [calls EXCEPT !.ticker = @ + r.lookups, !.price = @ + r.fetches]
    /\ UNCHANGED <<function_call, widgets, newsCache, fxCache, now, turns>>

DispatchHistory ==
    /\ Dispatching("get_stock_history")
    /\ \E lookup \in TickerLookups, hist \in HistOutcomes, info \in InfoOutcomes :
          LET r == get_stock_history(function_call.arguments.ticker, lookup, hist, info,
                                     tickerCache)
          IN  /\ IF r.raises THEN Raised ELSE Returned(r.ret)
              /\ tickerCache' = r.tc
              /\ resolved' = r.resolved
              /\ calls' = [calls EXCEPT !.ticker = @ + r.lookups, !.price = @ + r.fetches]
    /\ UNCHANGED <<function_call, widgets, newsCache, fxCache, now, turns>>

DispatchNews ==
    /\ Dispatching("get_financial_news")
    /\ \E lookup \in TickerLookups, info \in InfoOutcomes, http \in NewsAnswers :
          LET r == get_financial_news(function_call.arguments.ticker, lookup, info, http,
                                      tickerCache, newsCache)
          IN  /\ IF r.raises THEN Raised ELSE Returned(r.ret)
              /\ tickerCache' = r.tc
              /\ newsCache' = r.nc
              /\ resolved' = r.resolved
              /\ calls' = [calls EXCEPT !.ticker = @ + r.lookups, !.news = @ + r.fetches]
    /\ UNCHANGED <<function_call, widgets, fxCache, now, turns>>

DispatchFx ==
    /\ Dispatching("get_exchange_rate")
    /\ \E http \in FxAnswers :
          LET r == get_exchange_rate(function_call.arguments.from_currency,
                                     function_call.arguments.to_currency, http, fxCache)
          IN  /\ IF r.raises THEN Raised ELSE Returned(r.ret)
              /\ fxCache' = r.fc
              /\ calls' = [calls EXCEPT !.fx = @ + r.fetches]
    /\ UNCHANGED <<function_call, resolved, widgets, tickerCache, newsCache, now, turns>>

\* else: function_response = "Unknown function call."
DispatchUnknown ==
    /\ pc = "dispatch"
    /\ function_call.arguments # MALFORMED
    /\ function_call.name \notin functions
    /\ Returned(UNKNOWN_FUNCTION)
    /\ UNCHANGED <<function_call, resolved, widgets, calls,
                   tickerCache, newsCache, fxCache, now, turns>>

\* client.chat.completions.create(model=model, messages=...) raises
SecondCallRaises ==
    /\ pc = "second_call"
    /\ Abort("model")
    /\ UNCHANGED <<session, function_call, function_response, resolved, widgets, calls,
                   tickerCache, newsCache, fxCache, now, turns>>

\* the model narrates the function's result
SecondCallAnswers ==
    /\ pc = "second_call"
    /\ session' = AppendMessage(session, [role |-> "assistant", content |-> ANSWER])
    /\ calls' = [calls EXCEPT !.model = @ + 1]
    /\ pc' = "side_effects"
    /\ UNCHANGED <<function_call, function_response, resolved, widgets, raised,
                   tickerCache, newsCache, fxCache, now, turns>>

\* the widget the news branch renders
NewsWidgets(response) ==
    IF Contains(response, ERROR_WORD) \/ Contains(Lower(response), NO_RECENT_NEWS)
    THEN <<[kind |-> "warning", text |-> response]>>
    ELSE <<>>

\* the widget the exchange-rate branch renders
FxWidgets(response) ==
    IF Contains(response, ERROR_WORD) \/ Contains(response, NOT_FOUND)
    THEN <<[kind |-> "error", text |-> response]>>
    ELSE <<>>

\* a history branch that plots whatever the result is
PlotsAlways(response) == TRUE

\* a history branch with the test the wrong way round
PlotsOnFailure(response) == StartsWith(response, FAIL_MARK)

\* the history branch plots only a result that does not start with the failure mark
PlotsHistory(response) == ~StartsWith(response, FAIL_MARK)

\* the branches on function_name after the second answer, then st.success
SideEffectsPlot ==
    /\ pc = "side_effects"
    /\ function_call.name = "get_stock_history"
    /\ PlotsHistory(function_response)
    /\ \E lookup \in TickerLookups, hist \in HistOutcomes :
          LET r == plot_stock_history(function_call.arguments.ticker, lookup, hist,
                                      tickerCache)
          IN  /\ widgets' = widgets \o <<r.widget, [kind |-> "success", text |-> ANSWER]>>
              /\ tickerCache' = r.tc
              /\ resolved' = r.resolved
              /\ calls' = [calls EXCEPT !.ticker = @ + r.lookups,
                                        !.price = @ + r.fetches, !.plot = @ + 1]
    /\ pc' = "idle"
    /\ UNCHANGED <<session, function_call, function_response, raised,
                   newsCache, fxCache, now, turns>>

SideEffectsOther ==
    /\ pc = "side_effects"
    /\ ~(function_call.name = "get_stock_history" /\ PlotsHistory(function_response))
    /\ widgets' =
          widgets
            \o (CASE function_call.name = "get_stock_history" ->
                        <<[kind |-> "warning", text |-> function_response]>>
                  [] function_call.name = "get_financial_news" ->
                        NewsWidgets(function_response)
                  [] function_call.name = "get_exchange_rate" ->
                        FxWidgets(function_response)
                  [] OTHER -> <<>>)
            \o <<[kind |-> "success", text |-> ANSWER]>>
    /\ pc' = "idle"
    /\ UNCHANGED <<session, function_call, function_response, resolved, calls, raised,
                   tickerCache, newsCache, fxCache, now, turns>>

\* time passes while the script waits: for the question, then for the model
Tick ==
    /\ pc = "first_call"
    /\ \E t \in ClockReadings :
          /\ t > now
          /\ now' = t
    /\ UNCHANGED <<session, pc, function_call, function_response, resolved, widgets,
                   calls, raised, tickerCache, newsCache, fxCache, turns>>

Next ==
    \/ Rerun
    \/ Submit
    \/ FirstCallRaises
    \/ FirstCallAnswers
    \/ FirstCallRequests
    \/ ArgumentsRejected
    \/ DispatchPrice
    \/ DispatchHistory
    \/ DispatchNews
    \/ DispatchFx
    \/ DispatchUnknown
    \/ SecondCallRaises
    \/ SecondCallAnswers
    \/ SideEffectsPlot
    \/ SideEffectsOther
    \/ Tick

Spec == Init /\ [][Next]_vars

-----------------------------------------------------------------------------
(* Vocabulary of the properties.                                           *)

Range(s) == {s[i] : i \in DOMAIN s}

\* the last n messages of the transcript
LastMessages(n) == SubSeq(messages, Len(messages) - n + 1, Len(messages))

\* the running turn was asked for a function with arguments that parse
ToolTurn == function_call # NoCall /\ function_call.arguments.json

\* the turn ran to its end: both answers were appended and the branches ran
TurnCompleted == pc = "idle" /\ raised = "no" /\ function_call # NoCall

\* the result of the running turn's function starts with the failure mark
FailureMarked == StartsWith(function_response, <<"U+274C">>)

\* an entry for the key was stored less than ttl seconds ago
InWindow(cache, key, ttl) == key \in DOMAIN cache /\ now - cache[key].at < ttl

\* the step is the dispatch of the named function
DispatchStep(name) ==
    /\ pc = "dispatch"
    /\ pc' # "dispatch"
    /\ function_call.arguments.json
    /\ function_call.name = name

\* the step is the chart call of the side-effect branches
PlotStep == pc = "side_effects" /\ calls'.plot = calls.plot + 1

HasChart == \E w \in Range(widgets) : w.kind = "pyplot"

-----------------------------------------------------------------------------
(* C1.                                                                     *)

\* C1: no exception crosses the boundary of a tool operation: no run is ever
\* ended by an exception raised inside get_stock_price, get_stock_history,
\* get_financial_news or get_exchange_rate.
C1_NoToolException == raised # "tool"

-----------------------------------------------------------------------------
(* C2.                                                                     *)

\* C2: a turn in which the model requested a function has, when the run is over,
\* made exactly two model calls, the first with the declarations and the second
\* without, and has appended user, function result (under the requested name) and
\* assistant message, in this order; a direct-answer turn has made one model call
\* and appended user and assistant message.
C2_TurnSteps ==
    /\ (pc = "idle" /\ ToolTurn) =>
          /\ calls.model = 2
          /\ calls.declared = 1
          /\ Len(messages) >= 4
          /\ LastMessages(3)[1].role = "user"
          /\ LastMessages(3)[2].role = "function"
          /\ LastMessages(3)[2].name = function_call.name
          /\ LastMessages(3)[2].content = function_response
          /\ LastMessages(3)[3].role = "assistant"
    /\ (pc = "idle" /\ function_call = NoCall /\ calls.model = 1) =>
          /\ Len(messages) >= 3
          /\ LastMessages(2)[1].role = "user"
          /\ LastMessages(2)[2].role = "assistant"

-----------------------------------------------------------------------------
(* C3.                                                                     *)

\* C3: after a completed turn that dispatched get_exchange_rate, the error widget
\* showing the function's result is rendered exactly when the result is
\* failure-marked.
C3_FxErrorWidget ==
    (TurnCompleted /\ function_call.name = "get_exchange_rate") =>
        (([kind |-> "error", text |-> function_response] \in Range(widgets))
            <=> FailureMarked)

-----------------------------------------------------------------------------
(* C4.                                                                     *)

\* C4 as stated: the cache of get_exchange_rate does not look at the pair, so a
\* call made while any entry is inside the 5-minute window is served from the
\* cache and fetches nothing.
C4_FxCacheIgnoresPair ==
    [][ (/\ DispatchStep("get_exchange_rate")
         /\ \E k \in DOMAIN fxCache : InWindow(fxCache, k, 300))
        => calls'.fx = calls.fx ]_vars

\* C4 amended: a call of get_exchange_rate is served from the cache only when
\* the entry of its own pair of arguments is inside the window, and then returns
\* that entry; a result that is not failure-marked names the pair it was asked for.
C4_FxCacheKeyedByPair ==
    [][ DispatchStep("get_exchange_rate") =>
          LET from == function_call.arguments.from_currency
              to == function_call.arguments.to_currency
          IN  /\ (calls'.fx = calls.fx /\ raised' = "no") =>
                    /\ InWindow(fxCache, <<from, to>>, 300)
                    /\ function_response' = fxCache[<<from, to>>].val
              /\ (raised' = "no" /\ ~StartsWith(function_response', <<"U+274C">>)) =>
                    /\ StartsWith(function_response',
                                  <<"1", " ">> \o Upper(from) \o <<" ", "=", " ">>)
                    /\ Contains(function_response',
                                <<" ">> \o Upper(to) \o <<"*", "*">>) ]_vars

\* a pair is fetched while the entry of another pair is inside the window
C4_OtherPairFetched ==
    /\ pc = "second_call"
    /\ function_call.name = "get_exchange_rate"
    /\ calls.fx = 1
    /\ \E k \in DOMAIN fxCache :
          /\ k # <<function_call.arguments.from_currency,
                   function_call.arguments.to_currency>>
          /\ InWindow(fxCache, k, 300)
          /\ now > fxCache[k].at

-----------------------------------------------------------------------------
(* C5.                                                                     *)

\* C5 as stated: a turn fetches the price series, the article list or the rate
\* table at most once, the chart of a history turn included.
C5_OneFetchPerTurn == calls.price + calls.news + calls.fx <= 1

\* C5 amended: a turn fetches the article list and the rate table at most once
\* and the price series at most twice, and nothing else beside the price series;
\* the series is fetched twice exactly in a completed get_stock_history turn whose
\* result is not failure-marked, the second time by the chart call.
C5_FetchesPerTurn ==
    /\ calls.news <= 1
    /\ calls.fx <= 1
    /\ calls.price <= 2
    /\ calls.price + calls.news + calls.fx <= 2
    /\ calls.price > 0 => (calls.news = 0 /\ calls.fx = 0)
    /\ calls.price = 2 <=>
          /\ TurnCompleted
          /\ function_call.name = "get_stock_history"
          /\ ~FailureMarked
    /\ calls.price = 2 => calls.plot = 1

\* a history turn fetched the series for its result and again for its chart
C5_SeriesFetchedTwice == calls.price = 2 /\ HasChart

-----------------------------------------------------------------------------
(* C6.                                                                     *)

\* C6: a call of find_ticker, get_financial_news or get_exchange_rate whose
\* arguments have an entry inside the window (600, 120, 300 seconds) returns the
\* entry and fetches nothing; a call without such an entry fetches once, and the
\* value it returns is the entry later calls are answered from.
C6_MemoizedCalls ==
    [][ /\ DispatchStep("get_exchange_rate") =>
              LET key == <<function_call.arguments.from_currency,
                           function_call.arguments.to_currency>>
              IN  IF InWindow(fxCache, key, 300)
                  THEN /\ function_response' = fxCache[key].val
                       /\ pc' = "second_call"
                       /\ calls'.fx = calls.fx
                       /\ fxCache' = fxCache
                  ELSE /\ calls'.fx = calls.fx + 1
                       /\ pc' = "second_call" =>
                             fxCache'[key] = [val |-> function_response', at |-> now]
        /\ DispatchStep("get_financial_news") =>
              LET key == <<function_call.arguments.ticker>>
              IN  IF InWindow(newsCache, key, 120)
                  THEN /\ function_response' = newsCache[key].val
                       /\ pc' = "second_call"
                       /\ calls'.news = calls.news
                       /\ calls'.ticker = calls.ticker
                       /\ newsCache' = newsCache
                  ELSE /\ calls'.news = calls.news + 1
                       /\ pc' = "second_call" =>
                             newsCache'[key] = [val |-> function_response', at |-> now]
        /\ (\/ DispatchStep("get_stock_price")
            \/ DispatchStep("get_stock_history")
            \/ PlotStep
            \/ /\ DispatchStep("get_financial_news")
               /\ ~InWindow(newsCache, <<function_call.arguments.ticker>>, 120)) =>
              LET key == <<function_call.arguments.ticker>>
              IN  IF InWindow(tickerCache, key, 600)
                  THEN /\ resolved' = tickerCache[key].val
                       /\ calls'.ticker = calls.ticker
                       /\ tickerCache' = tickerCache
                  ELSE /\ calls'.ticker = calls.ticker + 1
                       /\ tickerCache'[key] = [val |-> resolved', at |-> now] ]_vars

\* a rate is asked for again inside the window, later than it was stored, and
\* no table is fetched
C6_ServedFromCache ==
    /\ pc = "second_call"
    /\ function_call.name = "get_exchange_rate"
    /\ calls.fx = 0
    /\ now > fxCache[<<function_call.arguments.from_currency,
                       function_call.arguments.to_currency>>].at

-----------------------------------------------------------------------------
(* C7.                                                                     *)

\* C7 as stated: after a completed get_stock_history turn the chart is rendered
\* exactly when the result is not failure-marked.
C7_ChartIffSuccess ==
    (TurnCompleted /\ function_call.name = "get_stock_history") =>
        (HasChart <=> ~FailureMarked)

\* C7 amended: the chart call is made exactly in a completed get_stock_history
\* turn whose result is not failure-marked, and a chart is rendered only by that
\* call; a completed history turn with a failure-marked result renders a warning
\* with the result and makes no chart call.
C7_ChartOnlyOnSuccess ==
    /\ calls.plot = 1 <=>
          /\ TurnCompleted
          /\ function_call.name = "get_stock_history"
          /\ ~FailureMarked
    /\ calls.plot <= 1
    /\ HasChart => calls.plot = 1
    /\ (TurnCompleted /\ function_call.name = "get_stock_history" /\ FailureMarked) =>
          /\ [kind |-> "warning", text |-> function_response] \in Range(widgets)
          /\ ~HasChart

\* a history turn with a result that is not failure-marked ends without a chart
C7_ChartCallWithoutChart ==
    /\ TurnCompleted
    /\ function_call.name = "get_stock_history"
    /\ ~FailureMarked
    /\ calls.plot = 1
    /\ ~HasChart

-----------------------------------------------------------------------------
(* C8.                                                                     *)

-----------------------------------------------------------------------------
(* C9.                                                                     *)

\* C9: once the session holds a transcript its first message is the system
\* instruction and no other message has role system; no step removes the
\* transcript, and every step leaves the messages already appended in place.
C9_AppendOnly ==
    /\ []("messages" \in DOMAIN session =>
            /\ Len(messages) >= 1
            /\ messages[1].role = "system"
            /\ \A i \in 2..Len(messages) : messages[i].role # "system")
    /\ [][ "messages" \in DOMAIN session =>
              /\ "messages" \in DOMAIN session'
              /\ Len(messages') >= Len(messages)
              /\ SubSeq(messages', 1, Len(messages)) = messages ]_vars

\* two turns, one of them with a function result, have been appended
C9_TwoTurnsAppended ==
    /\ Len(messages) >= 6
    /\ pc = "idle"

-----------------------------------------------------------------------------
(* C10.                                                                    *)

\* the messages are complete groups: user, assistant or user, function, assistant
RECURSIVE Grouped(_)
Grouped(ms) ==
    \/ Len(ms) = 0
    \/ /\ Len(ms) >= 2
       /\ ms[1].role = "user"
       /\ ms[2].role = "assistant"
       /\ Grouped(SubSeq(ms, 3, Len(ms)))
    \/ /\ Len(ms) >= 3
       /\ ms[1].role = "user"
       /\ ms[2].role = "function"
       /\ ms[3].role = "assistant"
       /\ Grouped(SubSeq(ms, 4, Len(ms)))

\* C10: between two runs the transcript after the system message is a
\* concatenation of complete groups, whatever raised in the runs before.
C10_CompleteGroups ==
    (pc = "idle" /\ "messages" \in DOMAIN session) => Grouped(Tail(messages))

====
